---- MODULE Spec2Model ----
(***************************************************************************)
(* Model of the API benchmark server (server.js): the provider probes,     *)
(* the price and wallet benchmark runs, and the summary aggregation.       *)
(*                                                                         *)
(* JavaScript values are records [t, n, d, s]: t is the type tag, n / d    *)
(* the number as an exact fraction with d > 0 (n is 1 or 0 for a boolean), *)
(* s the string.  Prices are in units of 1/100 USD.                        *)
(***************************************************************************)
EXTENDS Integers, Sequences, FiniteSets, TLC

VARIABLES
    pc,          \* run -> position of the request handler
    cursor,      \* run -> loop indices [t, i, p] of the handler
    coinGeckoRef,\* reference price held by the price run for its iteration
    result,      \* run -> result of the probe awaiting its insert
    store,       \* rows of the benchmark_results table
    response,    \* run -> what the handler answered
    hung,        \* run -> its network call will never settle
    down,        \* the providers that answer every call with a server error
    refQueries,  \* log of the reference queries issued
    probes,      \* log of the probe calls issued
    called,      \* run -> providers it called since its last delay elapsed
    probeIn,     \* one call of a probe (its arguments and the network's
                 \* answer) or of the accuracy helpers (its arguments)
    probeState,  \* "called", "returned" or "threw"
    probeOut,    \* what the call returned
    window,      \* rows handed to the summary query
    summaryOf,   \* which server file answers the summary query
    summary      \* the summary it answered

runVars   == <<pc, cursor, coinGeckoRef, result, store, response, hung,
               down, refQueries, probes, called>>
probeVars == <<probeIn, probeState, probeOut>>
aggVars   == <<window, summaryOf, summary>>
vars      == <<runVars, probeVars, aggVars>>

---------------------------------------------------------------------------
(* JavaScript values *)

Undefined == [t |-> "undefined", n |-> 0, d |-> 1, s |-> ""]
Null      == [t |-> "null", n |-> 0, d |-> 1, s |-> ""]
Obj       == [t |-> "object", n |-> 0, d |-> 1, s |-> ""]
Num(k)    == [t |-> "number", n |-> k, d |-> 1, s |-> ""]
Str(x)    == [t |-> "string", n |-> 0, d |-> 1, s |-> x]
Bool(b)   == [t |-> "boolean", n |-> IF b THEN 1 ELSE 0, d |-> 1, s |-> ""]
NaN       == [t |-> "NaN", n |-> 0, d |-> 1, s |-> ""]

Abs(k) == IF k < 0 THEN 0 - k ELSE k

RECURSIVE Gcd(_, _)
Gcd(a, b) == IF b = 0 THEN a ELSE Gcd(b, a % b)

\* the quotient a / b of two integers, b # 0, in lowest terms
Frac(a, b) ==
    LET g == Gcd(Abs(a), Abs(b))
    IN  [t |-> "number", n |-> (IF b < 0 THEN 0 - a ELSE a) \div g,
         d |-> Abs(b) \div g, s |-> ""]

\* sum and quotient of two numbers, and the order on them
Plus(x, y)   == Frac(x.n * y.d + y.n * x.d, x.d * y.d)
Over(x, y)   == Frac(x.n * y.d, x.d * y.n)
Times(x, k)  == Frac(x.n * k, x.d)
Leq(x, y)    == x.n * y.d <= y.n * x.d
Magnitude(x) == Frac(Abs(x.n), x.d)

\* ToBoolean: what `!v`, `v && w`, `v || w` and `if (v)` test
Truthy(v) ==
    CASE v.t = "undefined" -> FALSE
      [] v.t = "null"      -> FALSE
      [] v.t = "NaN"       -> FALSE
      [] v.t = "boolean"   -> v.n = 1
      [] v.t = "number"    -> v.n # 0
      [] v.t = "string"    -> v.s # ""
      [] OTHER             -> TRUE

Or(v, w)  == IF Truthy(v) THEN v ELSE w
IsNullish(v) == v.t \in {"undefined", "null"}

UpperCase == "ABCDEFGHIJKLMNOPQRSTUVWXYZ"
LowerCase == "abcdefghijklmnopqrstuvwxyz"

LowerChar(c) ==
    IF \E k \in 1..26 : SubSeq(UpperCase, k, k) = c
    THEN LET k == CHOOSE j \in 1..26 : SubSeq(UpperCase, j, j) = c
         IN  SubSeq(LowerCase, k, k)
    ELSE c

RECURSIVE toLowerCase(_)
toLowerCase(x) ==
    IF Len(x) = 0 THEN ""
    ELSE LowerChar(SubSeq(x, 1, 1)) \o toLowerCase(SubSeq(x, 2, Len(x)))

includes(x, kw) ==
    \E k \in 1..(Len(x) - Len(kw) + 1) : SubSeq(x, k, k + Len(kw) - 1) = kw

Digits == "0123456789"
IsDigit(c) == \E k \in 1..10 : SubSeq(Digits, k, k) = c
DigitValue(c) == (CHOOSE k \in 1..10 : SubSeq(Digits, k, k) = c) - 1

RECURSIVE LeadingDigits(_, _, _)
\* <<value, count>> of the decimal digits x starts with at position k
LeadingDigits(x, k, acc) ==
    IF k <= Len(x) /\ IsDigit(SubSeq(x, k, k))
    THEN LeadingDigits(x, k + 1, <<acc[1] * 10 + DigitValue(SubSeq(x, k, k)), acc[2] + 1>>)
    ELSE acc

\* parseFloat: a number is itself; a string gives the number it starts with
\* (sign and digits), NaN when it starts with none; anything else is NaN
parseFloat(v) ==
    CASE v.t = "number" -> v
      [] v.t = "string" ->
           LET neg == Len(v.s) > 0 /\ SubSeq(v.s, 1, 1) = "-"
               d   == LeadingDigits(v.s, IF neg THEN 2 ELSE 1, <<0, 0>>)
           IN  IF d[2] = 0 THEN NaN
               ELSE Num(IF neg THEN 0 - d[1] ELSE d[1])
      [] OTHER -> NaN

---------------------------------------------------------------------------
(* JavaScript numbers are IEEE 754 doubles.  A natural number is held as   *)
(* its limbs of LimbBits bits, least significant first, the last one not   *)
(* zero (<<>> is zero), so that no intermediate value leaves the range of  *)
(* the integers.  A positive double is [m, e], the value m * 2^e with m of *)
(* exactly Precision bits, and zero is [m |-> <<>>, e |-> 0].  The         *)
(* exponents of the values met here stay far from the range where doubles  *)
(* overflow or are subnormal.                                              *)

LimbBits  == 15
Base      == 2^LimbBits
Precision == 53

\* drop the leading zero limbs
Canonical(x) ==
    LET used == {i \in 1..Len(x) : x[i] # 0}
    IN  IF used = {} THEN <<>>
        ELSE SubSeq(x, 1, CHOOSE i \in used : \A j \in used : j <= i)

Limb(x, i) == IF i >= 1 /\ i <= Len(x) THEN x[i] ELSE 0

\* the limbs of a whole number k >= 0
Limbs(k) ==
    Canonical(<<k % Base, (k \div Base) % Base, k \div (Base * Base)>>)

\* limbs i, i+1, ... of x + y + carry
RECURSIVE LimbsPlusFrom(_, _, _, _)
LimbsPlusFrom(x, y, i, carry) ==
    IF i > Len(x) /\ i > Len(y)
    THEN (IF carry = 0 THEN <<>> ELSE <<carry>>)
    ELSE LET s == Limb(x, i) + Limb(y, i) + carry
         IN  <<s % Base>> \o LimbsPlusFrom(x, y, i + 1, s \div Base)

LimbsPlus(x, y) == LimbsPlusFrom(x, y, 1, 0)

\* limbs i, i+1, ... of x - y - borrow, for x >= y
RECURSIVE LimbsMinusFrom(_, _, _, _)
LimbsMinusFrom(x, y, i, borrow) ==
    IF i > Len(x) THEN <<>>
    ELSE LET s == Limb(x, i) - Limb(y, i) - borrow
         IN  <<s % Base>>
                 \o LimbsMinusFrom(x, y, i + 1, IF s < 0 THEN 1 ELSE 0)

LimbsMinus(x, y) == Canonical(LimbsMinusFrom(x, y, 1, 0))

LimbsLess(x, y) ==
    IF Len(x) # Len(y) THEN Len(x) < Len(y)
    ELSE \E i \in 1..Len(x) :
             x[i] < y[i] /\ \A j \in (i + 1)..Len(x) : x[j] = y[j]

\* limbs i, i+1, ... of x * k + carry, for 0 <= k < Base
RECURSIVE LimbsTimesFrom(_, _, _, _)
LimbsTimesFrom(x, k, i, carry) ==
    IF i > Len(x) THEN (IF carry = 0 THEN <<>> ELSE <<carry>>)
    ELSE LET s == x[i] * k + carry
         IN  <<s % Base>> \o LimbsTimesFrom(x, k, i + 1, s \div Base)

LimbsTimes(x, k) == Canonical(LimbsTimesFrom(x, k, 1, 0))

\* x * 2^n and the whole part of x / 2^n
ShiftLeft(x, n) ==
    IF x = <<>> THEN <<>>
    ELSE [i \in 1..(n \div LimbBits) |-> 0] \o LimbsTimes(x, 2^(n % LimbBits))

ShiftRight(x, n) ==
    LET ls == n \div LimbBits
        bs == n % LimbBits
    IN  Canonical([i \in 1..(Len(x) - ls) |->
                      (Limb(x, i + ls) \div 2^bs)
                        + (Limb(x, i + ls + 1) % 2^bs) * 2^(LimbBits - bs)])

\* the number of bits of x
BitLength(x) ==
    IF x = <<>> THEN 0
    ELSE LimbBits * (Len(x) - 1)
           + (CHOOSE k \in 1..LimbBits :
                  2^(k - 1) <= x[Len(x)] /\ x[Len(x)] < 2^k)

DoubleZero == [m |-> <<>>, e |-> 0]

\* the double nearest to x * 2^e (or, when inexact, to a value strictly
\* between x * 2^e and (x + 1) * 2^e), ties to the even mantissa
RoundToDouble(x, e, inexact) ==
    LET len == BitLength(x) IN
    IF len = 0 THEN DoubleZero
    ELSE IF len <= Precision
    THEN [m |-> ShiftLeft(x, Precision - len), e |-> e - (Precision - len)]
    ELSE LET drop == len - Precision
             kept == ShiftRight(x, drop)
             low  == LimbsMinus(x, ShiftLeft(kept, drop))
             half == ShiftLeft(<<1>>, drop - 1)
             up   == IF LimbsLess(low, half) THEN FALSE
                     ELSE IF LimbsLess(half, low) THEN TRUE
                     ELSE inexact \/ kept[1] % 2 = 1
             m    == IF up THEN LimbsPlus(kept, <<1>>) ELSE kept
         IN  IF BitLength(m) > Precision
             THEN [m |-> ShiftRight(m, 1), e |-> e + drop + 1]
             ELSE [m |-> m, e |-> e + drop]

\* the double of a whole number k >= 0
DoubleOf(k) == RoundToDouble(Limbs(k), 0, FALSE)

\* k more bits of the quotient of r by y, r < y: [q, r]
RECURSIVE LongDivision(_, _, _)
LongDivision(r, y, k) ==
    IF k = 0 THEN [q |-> <<>>, r |-> r]
    ELSE LET twice == LimbsTimes(r, 2)
             bit   == ~LimbsLess(twice, y)
             rest  == LongDivision(IF bit THEN LimbsMinus(twice, y) ELSE twice,
                                   y, k - 1)
         IN  [q |-> IF bit THEN LimbsPlus(rest.q, ShiftLeft(<<1>>, k - 1))
                    ELSE rest.q,
              r |-> rest.r]

\* the long division of two mantissas is carried Chunk bits at a time
Chunk == 14

\* a / b for doubles a >= 0, b > 0: the quotient of the mantissas to
\* 4 * Chunk bits past the point, then rounded
DoubleOver(a, b) ==
    IF a.m = <<>> THEN DoubleZero
    ELSE LET first == ~LimbsLess(a.m, b.m)
             d1 == LongDivision(IF first THEN LimbsMinus(a.m, b.m) ELSE a.m,
                                b.m, Chunk)
             d2 == LongDivision(d1.r, b.m, Chunk)
             d3 == LongDivision(d2.r, b.m, Chunk)
             d4 == LongDivision(d3.r, b.m, Chunk)
             q  == LimbsPlus(
                     LimbsPlus(ShiftLeft(IF first THEN <<1>> ELSE <<>>, 4 * Chunk),
                               ShiftLeft(d1.q, 3 * Chunk)),
                     LimbsPlus(ShiftLeft(d2.q, 2 * Chunk),
                               LimbsPlus(ShiftLeft(d3.q, Chunk), d4.q)))
         IN  RoundToDouble(q, a.e - b.e - 4 * Chunk, d4.r # <<>>)

\* a <= b for doubles a, b >= 0
DoubleLeq(a, b) ==
    IF a.m = <<>> THEN TRUE
    ELSE IF b.m = <<>> THEN FALSE
    ELSE IF a.e # b.e THEN a.e < b.e
    ELSE ~LimbsLess(b.m, a.m)

\* Math.abs(a - b) for doubles a, b > 0
DoubleDistance(a, b) ==
    LET hi == IF DoubleLeq(a, b) THEN b ELSE a
        lo == IF DoubleLeq(a, b) THEN a ELSE b
        by == hi.e - lo.e
    IN  IF by > Precision + 2 THEN hi
        ELSE RoundToDouble(LimbsMinus(ShiftLeft(hi.m, by), lo.m), lo.e, FALSE)

\* the double that the literal n/d denotes, n >= 0
DoubleOfNumber(v) ==
    IF v.d = 1 THEN DoubleOf(v.n) ELSE DoubleOver(DoubleOf(v.n), DoubleOf(v.d))

---------------------------------------------------------------------------
(* Program constants *)

\* a variant that probes the reference provider first
ReferenceProviderFirst ==
    <<"coingecko", "alchemy", "mobula", "codex", "goldrush">>

PriceProviders  == <<"alchemy", "mobula", "codex", "coingecko", "goldrush">>
WalletProviders == <<"alchemy", "mobula", "codex", "goldrush">>
Tokens          == <<"USDT", "ETH">>

\* tolerance = 0.05 as the fraction ToleranceNum / ToleranceDen
ToleranceNum == 5
ToleranceDen == 100

---------------------------------------------------------------------------
(* The pure helpers of the probes *)

\* errorMessage.toLowerCase() exists on strings only: for any other truthy
\* value the call raises a TypeError
classifyErrorThrows(errorMessage) ==
    Truthy(errorMessage) /\ errorMessage.t # "string"

\* classifyError(errorMessage, statusCode) for a falsy or string errorMessage;
\* statusCode is not read by the code
classifyError(errorMessage, statusCode) ==
    IF ~Truthy(errorMessage) THEN "success"
    ELSE LET msg == toLowerCase(errorMessage.s)
         IN  IF includes(msg, "429") \/ includes(msg, "rate limit")
                 THEN "rate_limit"
             ELSE IF includes(msg, "401") \/ includes(msg, "403")
                     \/ includes(msg, "unauthorized")
                 THEN "auth_error"
             ELSE IF includes(msg, "404") \/ includes(msg, "not found")
                 THEN "not_found"
             ELSE IF includes(msg, "500") \/ includes(msg, "502")
                     \/ includes(msg, "503")
                 THEN "server_error"
             ELSE IF includes(msg, "timeout") \/ includes(msg, "econnrefused")
                 THEN "network_error"
             ELSE IF includes(msg, "parse") \/ includes(msg, "json")
                 THEN "parse_error"
             ELSE "unknown_error"

\* validatePriceAccuracy with the default tolerance; both arguments numbers
validatePriceAccuracy(priceValue, referencePrice) ==
    IF ~Truthy(priceValue) \/ ~Truthy(referencePrice)
       \/ priceValue.n <= 0 \/ referencePrice.n <= 0
    THEN FALSE
    ELSE \* |p - r| / r <= tolerance, over the positive denominators
         Abs(priceValue.n * referencePrice.d - referencePrice.n * priceValue.d)
             * ToleranceDen
           <= ToleranceNum * referencePrice.n * priceValue.d

\* calculateDeviation: ((p - r) / r) * 100, or null
calculateDeviation(priceValue, referencePrice) ==
    IF ~Truthy(priceValue) \/ ~Truthy(referencePrice) \/ referencePrice.n = 0
    THEN Null
    ELSE Frac((priceValue.n * referencePrice.d - referencePrice.n * priceValue.d)
                  * 100,
              referencePrice.n * priceValue.d)

\* validatePriceAccuracy(priceValue, referencePrice, tolerance) for numbers
\* and a tolerance >= 0, computed in doubles as the code computes it.  For
\* whole numbers it agrees with validatePriceAccuracy above, which the
\* probes of the runs use.
validatePriceAccuracyWithin(priceValue, referencePrice, tolerance) ==
    IF ~Truthy(priceValue) \/ ~Truthy(referencePrice)
       \/ priceValue.n <= 0 \/ referencePrice.n <= 0
    THEN FALSE
    ELSE LET p         == DoubleOfNumber(priceValue)
             r         == DoubleOfNumber(referencePrice)
             deviation == DoubleOver(DoubleDistance(p, r), r)
         IN  DoubleLeq(deviation, DoubleOfNumber(tolerance))

\* The JSON body of a response is [shape, price, error, message, size]:
\* shape names the provider whose price path the body has ("none": no such
\* path), price is the value found at that path.
PriceAt(provider, body) ==
    IF body.shape = provider THEN body.price ELSE Undefined

\* extractPrice(provider, responseData), responseData a parsed JSON object
extractPrice(provider, responseData) ==
    LET price ==
          CASE provider \in {"alchemy", "mobula", "codex", "coingecko"} ->
                 PriceAt(provider, responseData)
            [] provider = "goldrush" ->
                 IF Truthy(PriceAt("goldrush", responseData))
                     THEN PriceAt("goldrush", responseData)
                 ELSE IF Truthy(PriceAt("goldrush_direct", responseData))
                     THEN PriceAt("goldrush_direct", responseData)
                 ELSE Null
            [] OTHER -> Null
    IN  IF IsNullish(price) THEN Null
        ELSE LET numPrice == parseFloat(price)
             IN  IF numPrice.t = "NaN" THEN Null ELSE numPrice

---------------------------------------------------------------------------
(* Network calls.  An outcome is what one fetch does:                      *)
(*   net     "rejects" (fetch raises an Error with message errmsg),        *)
(*           "responds" or "hangs" (the promise never settles)             *)
(*   status  the HTTP status of the response                               *)
(*   parse   what response.json() does: "raises" (not JSON), "null" (the   *)
(*           JSON value null) or "object" (body is the parsed object)      *)
(*   elapsed the time the call took                                        *)

ResponseOk(o) == o.status >= 200 /\ o.status <= 299

SyntaxErrorMessage == "Unexpected token < in JSON at position 0"
NullReadMessage    == "Cannot read properties of null (reading 'error')"
NoResponseMessage  == "Cannot read properties of undefined (reading 'status')"

KnownPriceProvider(provider) ==
    provider \in {"alchemy", "mobula", "codex", "coingecko", "goldrush"}
KnownWalletProvider(provider) ==
    provider \in {"alchemy", "mobula", "codex", "goldrush"}

\* The try block shared by testTokenPrice and testWalletBalance, from the
\* fetch to the catch: [success, errorMessage, responseData, hasData]
CallAttempt(known, o) ==
    LET failed(msg) == [success |-> FALSE, errorMessage |-> msg,
                        hasData |-> FALSE, responseData |-> o.body]
    IN  IF ~known THEN failed(Str(NoResponseMessage))
        ELSE IF o.net = "rejects" THEN failed(o.errmsg)
        ELSE IF o.parse = "raises" THEN failed(Str(SyntaxErrorMessage))
        ELSE IF o.parse = "null" THEN failed(Str(NullReadMessage))
        ELSE LET success == ResponseOk(o) /\ ~Truthy(o.body.error)
             IN  [success |-> success,
                  errorMessage |->
                      IF success THEN Null
                      ELSE Or(o.body.error,
                              Or(o.body.message,
                                 Str("HTTP " \o ToString(o.status)))),
                  hasData |-> TRUE, responseData |-> o.body]

Threw == [threw |-> TRUE, latency |-> 0, success |-> FALSE,
          errorMessage |-> Null, priceValue |-> Null, responseSize |-> 0,
          errorType |-> "", isAccurate |-> Null, referencePrice |-> Null,
          deviation |-> Null]

\* a variant that gives a verdict whenever there is a reference
isAccurateOfAnyPrice(priceValue, coinGeckoReference) ==
    IF Truthy(coinGeckoReference)
    THEN Bool(validatePriceAccuracy(priceValue, coinGeckoReference))
    ELSE Null

\* isAccurate and deviation of testTokenPrice
isAccurateOf(priceValue, coinGeckoReference) ==
    IF Truthy(priceValue) /\ Truthy(coinGeckoReference)
    THEN Bool(validatePriceAccuracy(priceValue, coinGeckoReference))
    ELSE Null

deviationOf(priceValue, coinGeckoReference) ==
    IF Truthy(priceValue) /\ Truthy(coinGeckoReference)
    THEN calculateDeviation(priceValue, coinGeckoReference)
    ELSE Null

\* testTokenPrice(provider, tokenSymbol, coinGeckoReference) when its call
\* does o (o.net # "hangs"): the returned object, or Threw when the
\* function raises
testTokenPrice(provider, tokenSymbol, coinGeckoReference, o) ==
    LET a == CallAttempt(KnownPriceProvider(provider), o)
        priceValue == IF a.success THEN extractPrice(provider, a.responseData)
                      ELSE Null
    IN  IF classifyErrorThrows(a.errorMessage) THEN Threw
        ELSE [threw |-> FALSE,
              latency |-> o.elapsed,
              success |-> a.success,
              errorMessage |-> a.errorMessage,
              priceValue |-> priceValue,
              responseSize |-> IF a.hasData THEN a.responseData.size ELSE 0,
              errorType |-> classifyError(a.errorMessage, o.status),
              isAccurate |-> isAccurateOf(priceValue, coinGeckoReference),
              referencePrice |-> coinGeckoReference,
              deviation |-> deviationOf(priceValue, coinGeckoReference)]

\* testWalletBalance(provider, walletAddress) when its call does o; the
\* properties the returned object does not have read as undefined
testWalletBalance(provider, walletAddress, o) ==
    LET a == CallAttempt(KnownWalletProvider(provider), o)
    IN  IF classifyErrorThrows(a.errorMessage) THEN Threw
        ELSE [threw |-> FALSE,
              latency |-> o.elapsed,
              success |-> a.success,
              errorMessage |-> a.errorMessage,
              priceValue |-> Undefined,
              responseSize |-> IF a.hasData THEN a.responseData.size ELSE 0,
              errorType |-> classifyError(a.errorMessage, o.status),
              isAccurate |-> Undefined,
              referencePrice |-> Undefined,
              deviation |-> Undefined]

\* getCoinGeckoReferencePrice(tokenSymbol) when its call does o
getCoinGeckoReferencePrice(tokenSymbol, o) ==
    IF o.net = "rejects" THEN Null
    ELSE IF ~ResponseOk(o) THEN Null
    ELSE IF o.parse # "object" THEN Null
    ELSE LET price == PriceAt("coingecko", o.body)
         IN  IF Truthy(price) THEN price ELSE Null

---------------------------------------------------------------------------
(* The outcomes and arguments the probes are checked over *)

ElapsedMs == 120
BodySize  == 64

NoBody == [shape |-> "none", price |-> Undefined, error |-> Undefined,
           message |-> Undefined, size |-> 0]

RejectMessages ==
    {"", "fetch failed", "Request timeout", "connect ECONNREFUSED 10.0.0.1:443"}

Statuses == {200, 429, 500}

BodyShapes ==
    {"alchemy", "mobula", "codex", "coingecko", "goldrush", "goldrush_direct",
     "none"}

\* what a provider puts at its price path
RawPrices ==
    {Undefined, Num(0), Num(100), Num(105), Num(106), Str("104"), Str("n/a")}

\* what a provider puts in the error field of its body
ErrorFields ==
    {Undefined, Str(""), Str("Rate limit exceeded"), Bool(TRUE), Obj}

MessageFields == {Undefined, Str("Unauthorized"), Obj}

\* bodies without an error, with some value at some price path, and bodies
\* that report an error
Bodies ==
    {[shape |-> sh, price |-> pr, error |-> er, message |-> Undefined,
      size |-> BodySize] :
        sh \in BodyShapes, pr \in RawPrices, er \in {Undefined, Str("")}}
    \cup
    {[shape |-> "none", price |-> Undefined, error |-> er, message |-> ms,
      size |-> BodySize] :
        er \in ErrorFields, ms \in MessageFields}

Rejection(m) ==
    [net |-> "rejects", errmsg |-> Str(m), status |-> 0, parse |-> "raises",
     body |-> NoBody, elapsed |-> ElapsedMs]
Reply(st, p, b) ==
    [net |-> "responds", errmsg |-> Null, status |-> st, parse |-> p,
     body |-> b, elapsed |-> ElapsedMs]
Hang ==
    [net |-> "hangs", errmsg |-> Null, status |-> 0, parse |-> "raises",
     body |-> NoBody, elapsed |-> 0]

ProbeOutcomes ==
    {Rejection(m) : m \in RejectMessages}
    \cup {Reply(st, p, NoBody) : st \in Statuses, p \in {"raises", "null"}}
    \cup {Reply(st, "object", b) : st \in Statuses, b \in Bodies}
    \cup {Hang}

\* the reference prices getCoinGeckoReferencePrice can hand to a probe
ReferencePrices ==
    {getCoinGeckoReferencePrice("USDT", o) :
        o \in {Rejection("fetch failed"),
               Reply(429, "object", NoBody),
               Reply(200, "object",
                     [shape |-> "coingecko", price |-> Num(100),
                      error |-> Undefined, message |-> Undefined,
                      size |-> BodySize])}}

WalletAddress == "0xd8dA6BF26964aF9D7eEd9e03E53415D37aA96045"

ProbeCalls ==
    {[kind |-> "price", provider |-> p, subject |-> tk, reference |-> ref,
      outcome |-> o] :
        p \in {"alchemy", "mobula", "codex", "coingecko", "goldrush", "infura"},
        tk \in {"USDT", "ETH"}, ref \in ReferencePrices, o \in ProbeOutcomes}
    \cup
    {[kind |-> "wallet", provider |-> p, subject |-> WalletAddress,
      reference |-> Null, outcome |-> o] :
        p \in {"alchemy", "mobula", "codex", "goldrush", "infura"},
        o \in ProbeOutcomes}

NoCall == [kind |-> "none", provider |-> "", subject |-> "", reference |-> Null,
           outcome |-> Hang]

---------------------------------------------------------------------------
(* One probe call, from the call to its return or its exception *)

ProbeIdle ==
    /\ probeIn = NoCall
    /\ probeState = "idle"
    /\ probeOut = Threw

PriceProbe ==
    /\ probeState = "called"
    /\ probeIn.kind = "price"
    /\ probeIn.outcome.net # "hangs"
    /\ probeOut' = testTokenPrice(probeIn.provider, probeIn.subject,
                                  probeIn.reference, probeIn.outcome)
    /\ probeState' = IF probeOut'.threw THEN "threw" ELSE "returned"
    /\ UNCHANGED <<probeIn, runVars, aggVars>>

WalletProbe ==
    /\ probeState = "called"
    /\ probeIn.kind = "wallet"
    /\ probeIn.outcome.net # "hangs"
    /\ probeOut' = testWalletBalance(probeIn.provider, probeIn.subject,
                                     probeIn.outcome)
    /\ probeState' = IF probeOut'.threw THEN "threw" ELSE "returned"
    /\ UNCHANGED <<probeIn, runVars, aggVars>>

---------------------------------------------------------------------------
(* The benchmark runs.  One request of each run endpoint is followed from  *)
(* its arrival to its answer; each await of its handler is one position:   *)
(*   "reference"  awaiting getCoinGeckoReferencePrice                      *)
(*   "probe"      awaiting testTokenPrice / testWalletBalance              *)
(*   "insert"     awaiting supabase.from('benchmark_results').insert       *)
(*   "pace"       awaiting the setTimeout promise                          *)
(*   "done"       res.json sent; "rejected": res.status(400) sent          *)
(*   "failed"     an exception left the handler; nothing was sent          *)

PriceIterations  == 2   \* iterations = 10 in the code
WalletIterations == 2   \* iterations = 5 in the code

Runs == {"price", "wallet"}

Providers(r) == IF r = "price" THEN PriceProviders ELSE WalletProviders
Iterations(r) == IF r = "price" THEN PriceIterations ELSE WalletIterations

\* the first cursor of the loops, and the cursor of the next probe after c
\* (price: tokens, iterations, providers; wallet: providers, iterations)
FirstCursor == [t |-> 1, i |-> 0, p |-> 1]

LastCursor(r, c) ==
    IF r = "price"
    THEN c.p = Len(PriceProviders) /\ c.i + 1 >= PriceIterations
         /\ c.t = Len(Tokens)
    ELSE c.i + 1 >= WalletIterations /\ c.p = Len(WalletProviders)

NextCursor(r, c) ==
    IF r = "price"
    THEN IF c.p < Len(PriceProviders) THEN [c EXCEPT !.p = c.p + 1]
         ELSE IF c.i + 1 < PriceIterations
             THEN [c EXCEPT !.p = 1, !.i = c.i + 1]
         ELSE [t |-> c.t + 1, i |-> 0, p |-> 1]
    ELSE IF c.i + 1 < WalletIterations THEN [c EXCEPT !.i = c.i + 1]
         ELSE [c EXCEPT !.p = c.p + 1, !.i = 0]

\* a variant that queries the reference once per token
StartsIterationOfFirstOnly(r, c) == r = "price" /\ c.p = 1 /\ c.i = 0

\* the price run queries the reference before the first provider of each
\* iteration
StartsIteration(r, c) == r = "price" /\ c.p = 1

TestType(r, c) ==
    IF r = "price" THEN "price_" \o Tokens[c.t] ELSE "wallet_balance"

\* a variant that leaves the tokens out of the product
TotalRequestsWithoutTokens(r) == Len(Providers(r)) * Iterations(r)

\* totalRequests of the RunSummary
TotalRequests(r) ==
    IF r = "price"
    THEN Len(PriceProviders) * Len(Tokens) * PriceIterations
    ELSE Len(WalletProviders) * WalletIterations

PriceBody(provider, price) ==
    [shape |-> provider, price |-> Num(price), error |-> Undefined,
     message |-> Undefined, size |-> BodySize]

\* the price of a token at an iteration, as every provider reports it
MarketPrice(tokenSymbol, iteration) ==
    (IF tokenSymbol = "USDT" THEN 100 ELSE 2500) + iteration

\* what a provider's call does during a run: a provider that is down answers
\* 500; one that is up answers the price, or a body whose error field is the
\* flag true
RunOutcomes(provider, tokenSymbol, iteration) ==
    IF provider \in down
    THEN {Reply(500, "object", NoBody)}
    ELSE {Reply(200, "object",
                PriceBody(provider, MarketPrice(tokenSymbol, iteration))),
          Reply(200, "object", [NoBody EXCEPT !.error = Bool(TRUE)])}

\* what the call of the reference query does: the provider that is down
\* answers 500, or 200 with a body that has no price of the token
RefOutcomes(tokenSymbol, iteration) ==
    IF "coingecko" \in down
    THEN {Reply(500, "object", NoBody), Reply(200, "object", NoBody)}
    ELSE {Reply(200, "object",
                PriceBody("coingecko", MarketPrice(tokenSymbol, iteration)))}

NoResult == Threw
NoResponse == [status |-> 0, totalRequests |-> 0]

RowsOf(r) == {row \in store : row.run = r}

\* a column the insert gives no value (a property that is undefined or not
\* in the inserted object) is null in the table
Column(v) == IF v.t = "undefined" THEN Null ELSE v

\* the row insert({provider, test_type, latency: result.latency, ...}) adds;
\* id, run and iteration stand for the key and the time the table gives it
InsertedRow(id, r, iteration, provider, test_type, res) ==
    [id |-> id,
     run |-> r,
     iteration |-> iteration,
     provider |-> provider,
     test_type |-> test_type,
     latency |-> res.latency,
     success |-> res.success,
     error_message |-> Column(res.errorMessage),
     price_value |-> Column(res.priceValue),
     response_size |-> res.responseSize,
     error_type |-> res.errorType,
     is_accurate |-> Column(res.isAccurate),
     reference_price |-> Column(res.referencePrice),
     deviation |-> Column(res.deviation)]

\* the row the handler inserts for the result of the probe at cursor c
Row(r, c, res) ==
    InsertedRow(Cardinality(RowsOf(r)) + 1, r, c.i, Providers(r)[c.p],
                TestType(r, c), res)

ProbeCall(r, c) ==
    [run |-> r, n |-> Cardinality({q \in probes : q.run = r}) + 1,
     provider |-> Providers(r)[c.p], test_type |-> TestType(r, c),
     iteration |-> c.i]

\* a reference query as it is issued: before counts the probes the price run
\* has issued so far, result is undefined until the query settles
RefQuery(c) ==
    [token |-> Tokens[c.t], iteration |-> c.i,
     before |-> Cardinality({q \in probes : q.run = "price"}),
     result |-> Undefined]

\* getCoinGeckoReferencePrice calls the provider the price run also probes
ReferenceProvider == "coingecko"

\* the handler reaches the iteration at cursor c: it awaits the reference
\* query (price run, first provider) or the probe
Issue(r, c) ==
    /\ cursor' = [cursor EXCEPT ![r] = c]
    /\ IF StartsIteration(r, c)
       THEN /\ pc' = [pc EXCEPT ![r] = "reference"]
            /\ refQueries' = Append(refQueries, RefQuery(c))
            /\ called' = [called EXCEPT ![r] = {ReferenceProvider}]
            /\ UNCHANGED probes
       ELSE /\ pc' = [pc EXCEPT ![r] = "probe"]
            /\ probes' = probes \cup {ProbeCall(r, c)}
            /\ called' = [called EXCEPT ![r] = {Providers(r)[c.p]}]
            /\ UNCHANGED refQueries

\* POST /api/run-price-benchmark arrives
StartPrice ==
    /\ pc["price"] = "idle"
    /\ Issue("price", FirstCursor)
    /\ UNCHANGED <<coinGeckoRef, result, store, response, hung, down,
                   probeVars, aggVars>>

\* a variant that validates the request after its first probe was issued
StartWalletProbingFirst ==
    /\ pc["wallet"] = "idle"
    /\ \E walletAddress \in {Undefined, Str(""), Str(WalletAddress)} :
         IF ~Truthy(walletAddress)
         THEN /\ pc' = [pc EXCEPT !["wallet"] = "rejected"]
              /\ response' = [response EXCEPT
                                 !["wallet"] = [status |-> 400,
                                                totalRequests |-> 0]]
              /\ probes' = probes \cup {ProbeCall("wallet", FirstCursor)}
              /\ UNCHANGED <<cursor, refQueries, called>>
         ELSE /\ Issue("wallet", FirstCursor)
              /\ UNCHANGED response
    /\ UNCHANGED <<coinGeckoRef, result, store, hung, down, probeVars,
                   aggVars>>

\* POST /api/run-wallet-benchmark arrives with or without a walletAddress
StartWallet ==
    /\ pc["wallet"] = "idle"
    /\ \E walletAddress \in {Undefined, Str(""), Str(WalletAddress)} :
         IF ~Truthy(walletAddress)
         THEN /\ pc' = [pc EXCEPT !["wallet"] = "rejected"]
              /\ response' = [response EXCEPT
                                 !["wallet"] = [status |-> 400,
                                                totalRequests |-> 0]]
              /\ UNCHANGED <<cursor, probes, refQueries, called>>
         ELSE /\ Issue("wallet", FirstCursor)
              /\ UNCHANGED response
    /\ UNCHANGED <<coinGeckoRef, result, store, hung, down, probeVars,
                   aggVars>>

\* a variant in which a reference query without a price ends the run
ReferenceReturnsOrAborts ==
    /\ pc["price"] = "reference"
    /\ ~hung["price"]
    /\ \E o \in RefOutcomes(Tokens[cursor["price"].t], cursor["price"].i) :
           coinGeckoRef' =
               getCoinGeckoReferencePrice(Tokens[cursor["price"].t], o)
    /\ refQueries' = [refQueries EXCEPT ![Len(refQueries)].result = coinGeckoRef']
    /\ IF Truthy(coinGeckoRef')
       THEN /\ pc' = [pc EXCEPT !["price"] = "probe"]
            /\ probes' = probes \cup {ProbeCall("price", cursor["price"])}
            /\ called' = [called EXCEPT
                             !["price"] = @ \cup {PriceProviders[cursor["price"].p]}]
       ELSE /\ pc' = [pc EXCEPT !["price"] = "failed"]
            /\ UNCHANGED <<probes, called>>
    /\ UNCHANGED <<cursor, result, store, response, hung, down, probeVars,
                   aggVars>>

\* the reference query settles; the handler calls the first provider's probe
ReferenceReturns ==
    /\ pc["price"] = "reference"
    /\ ~hung["price"]
    /\ \E o \in RefOutcomes(Tokens[cursor["price"].t], cursor["price"].i) :
           coinGeckoRef' =
               getCoinGeckoReferencePrice(Tokens[cursor["price"].t], o)
    /\ refQueries' = [refQueries EXCEPT ![Len(refQueries)].result = coinGeckoRef']
    /\ pc' = [pc EXCEPT !["price"] = "probe"]
    /\ probes' = probes \cup {ProbeCall("price", cursor["price"])}
    /\ called' = [called EXCEPT
                     !["price"] = @ \cup {PriceProviders[cursor["price"].p]}]
    /\ UNCHANGED <<cursor, result, store, response, hung, down, probeVars,
                   aggVars>>

\* the fetch of the pending call never settles: no code of the server ends it
CallHangs(r) ==
    /\ pc[r] \in {"reference", "probe"}
    /\ ~hung[r]
    /\ hung' = [hung EXCEPT ![r] = TRUE]
    /\ UNCHANGED <<pc, cursor, coinGeckoRef, result, store, response,
                   down, refQueries, probes, called, probeVars, aggVars>>

ProbeResult(r, o) ==
    IF r = "price"
    THEN testTokenPrice(Providers(r)[cursor[r].p], Tokens[cursor[r].t],
                        coinGeckoRef, o)
    ELSE testWalletBalance(Providers(r)[cursor[r].p], Str(WalletAddress), o)

\* the probe settles: its result goes to the insert, or its exception leaves
\* the handler, which has no try around the call
ProbeReturns(r) ==
    /\ pc[r] = "probe"
    /\ ~hung[r]
    /\ \E o \in RunOutcomes(Providers(r)[cursor[r].p],
                             Tokens[cursor[r].t], cursor[r].i) :
         \E res \in {ProbeResult(r, o)} :
             IF res.threw
             THEN /\ pc' = [pc EXCEPT ![r] = "failed"]
                  /\ UNCHANGED result
             ELSE /\ pc' = [pc EXCEPT ![r] = "insert"]
                  /\ result' = [result EXCEPT ![r] = res]
    /\ UNCHANGED <<cursor, coinGeckoRef, store, response, hung, down, refQueries,
                   probes, called, probeVars, aggVars>>

\* a variant that keeps one row per provider and test type
InsertReplacing(r) ==
    /\ pc[r] = "insert"
    /\ store' = {row \in store :
                    \/ row.provider # Providers(r)[cursor[r].p]
                    \/ row.test_type # TestType(r, cursor[r])}
                \cup {Row(r, cursor[r], result[r])}
    /\ pc' = [pc EXCEPT ![r] = "pace"]
    /\ UNCHANGED <<cursor, coinGeckoRef, result, response, hung, down,
                   refQueries, probes, called, probeVars, aggVars>>

\* a variant that keeps the row for a bulk insert after the loops
InsertBuffered(r) ==
    /\ pc[r] = "insert"
    /\ pc' = [pc EXCEPT ![r] = "pace"]
    /\ UNCHANGED <<cursor, coinGeckoRef, result, store, response, hung, down,
                   refQueries, probes, called, probeVars, aggVars>>

\* the insert settles: the row is in the table; the handler starts the delay
InsertReturns(r) ==
    /\ pc[r] = "insert"
    /\ store' = store \cup {Row(r, cursor[r], result[r])}
    /\ pc' = [pc EXCEPT ![r] = "pace"]
    /\ UNCHANGED <<cursor, coinGeckoRef, result, response, hung, down,
                   refQueries, probes, called, probeVars, aggVars>>

\* the delay is over: the handler goes on to the next call of its loops,
\* or past them to res.json
PaceElapses(r) ==
    /\ pc[r] = "pace"
    /\ IF LastCursor(r, cursor[r])
       THEN /\ pc' = [pc EXCEPT ![r] = "done"]
            /\ response' = [response EXCEPT
                               ![r] = [status |-> 200,
                                       totalRequests |-> TotalRequests(r)]]
            /\ called' = [called EXCEPT ![r] = {}]
            /\ UNCHANGED <<cursor, refQueries, probes>>
       ELSE /\ Issue(r, NextCursor(r, cursor[r]))
            /\ UNCHANGED response
    /\ UNCHANGED <<coinGeckoRef, result, store, hung, down, probeVars,
                   aggVars>>

RunStart ==
    /\ pc = [r \in Runs |-> "idle"]
    /\ cursor = [r \in Runs |-> FirstCursor]
    /\ coinGeckoRef = Null
    /\ result = [r \in Runs |-> NoResult]
    /\ store = {}
    /\ response = [r \in Runs |-> NoResponse]
    /\ hung = [r \in Runs |-> FALSE]
    /\ refQueries = <<>>
    /\ probes = {}
    /\ called = [r \in Runs |-> {}]

RunIdle == RunStart /\ down = {}

AggIdle ==
    /\ window = <<>>
    /\ summaryOf = "none"
    /\ summary = <<>>

\* any set of providers may be down when the requests arrive
Init ==
    /\ RunStart
    /\ down \in SUBSET {PriceProviders[k] : k \in 1..Len(PriceProviders)}
    /\ ProbeIdle
    /\ AggIdle

Next ==
    \/ StartPrice
    \/ StartWallet
    \/ ReferenceReturns
    \/ \E r \in Runs : CallHangs(r)
    \/ \E r \in Runs : ProbeReturns(r)
    \/ \E r \in Runs : InsertReturns(r)
    \/ \E r \in Runs : PaceElapses(r)

Spec == Init /\ [][Next]_vars

InitProbe ==
    /\ RunIdle
    /\ AggIdle
    /\ probeIn \in ProbeCalls
    /\ probeState = "called"
    /\ probeOut = Threw

NextProbe == PriceProbe \/ WalletProbe

SpecProbe == InitProbe /\ [][NextProbe]_vars

---------------------------------------------------------------------------
(* The accuracy helpers called on any prices: validatePriceAccuracy with a *)
(* given tolerance and calculateDeviation on an observed and a reference   *)
(* price, then validatePriceAccuracy on both prices times a scale factor.  *)

ObservedPrices ==
    {Num(0 - 1), Num(0), Frac(95, 100), Num(1), Frac(105, 100),
     Frac(1051, 1000), Frac(21, 10), Num(95), Num(105), Num(106)}
ReferenceValues == {Num(0 - 1), Num(0), Num(1), Num(2), Num(100)}
Tolerances      == {Frac(5, 100), Frac(1, 10)}
Scales          == {2, 100}

AccuracyCalls ==
    [kind : {"accuracy"}, observed : ObservedPrices,
     reference : ReferenceValues, tolerance : Tolerances, scale : Scales]

\* validatePriceAccuracy and calculateDeviation return
AccuracyHelpers ==
    /\ probeState = "called"
    /\ probeIn.kind = "accuracy"
    /\ probeOut' =
         [isAccurate |-> validatePriceAccuracyWithin(
                             probeIn.observed, probeIn.reference,
                             probeIn.tolerance),
          deviation  |-> calculateDeviation(probeIn.observed,
                                            probeIn.reference)]
    /\ probeState' = "returned"
    /\ UNCHANGED <<probeIn, runVars, aggVars>>

\* validatePriceAccuracy returns for the scaled prices
ScaledAccuracy ==
    /\ probeState = "returned"
    /\ probeIn.kind = "accuracy"
    /\ probeOut' =
         [isAccurate |-> probeOut.isAccurate,
          deviation  |-> probeOut.deviation,
          scaled     |-> validatePriceAccuracyWithin(
                             Times(probeIn.observed, probeIn.scale),
                             Times(probeIn.reference, probeIn.scale),
                             probeIn.tolerance)]
    /\ probeState' = "scaled"
    /\ UNCHANGED <<probeIn, runVars, aggVars>>

InitAccuracy ==
    /\ RunIdle
    /\ AggIdle
    /\ probeIn \in AccuracyCalls
    /\ probeState = "called"
    /\ probeOut = Threw

NextAccuracy == AccuracyHelpers \/ ScaledAccuracy

SpecAccuracy == InitAccuracy /\ [][NextAccuracy]_vars

---------------------------------------------------------------------------
(* GET /api/summary.  data is the sequence of rows the select returned,    *)
(* in timestamp order; a latency is a whole number of milliseconds.        *)

SummaryProviders       == <<"alchemy", "mobula", "codex", "coingecko", "goldrush">>
LegacySummaryProviders == <<"alchemy", "mobula", "codex">>

\* data.filter(keep), in order
Filter(data, keep(_)) == SelectSeq(data, keep)

RECURSIVE InsertAsc(_, _)
InsertAsc(sorted, x) ==
    IF sorted = <<>> THEN <<x>>
    ELSE IF x < Head(sorted) THEN <<x>> \o sorted
    ELSE <<Head(sorted)>> \o InsertAsc(Tail(sorted), x)

\* a variant that leaves the latencies in the order of the rows
KeepOrder(xs) == xs

\* xs.sort((a, b) => a - b)
RECURSIVE SortAsc(_)
SortAsc(xs) ==
    IF xs = <<>> THEN <<>> ELSE InsertAsc(SortAsc(Tail(xs)), Head(xs))

\* xs.reduce((a, b) => a + b, 0) over whole numbers and over fractions
RECURSIVE SumOf(_)
SumOf(xs) == IF xs = <<>> THEN 0 ELSE Head(xs) + SumOf(Tail(xs))

RECURSIVE SumOfNumbers(_)
SumOfNumbers(xs) ==
    IF xs = <<>> THEN Num(0) ELSE Plus(Head(xs), SumOfNumbers(Tail(xs)))

Map(xs, f(_)) == [k \in 1..Len(xs) |-> f(xs[k])]

\* a variant that takes the nearest rank, Math.ceil(n * 0.95) - 1
NearestRankIndex(n) == (n * 95 + 99) \div 100 - 1

\* Math.floor(n * 0.5) and Math.floor(n * 0.95)
HalfIndex(n)       == n \div 2
NinetyFiveIndex(n) == (n * 95) \div 100

IsProvider(provider, d) == d.provider = provider
IsFailed(d)             == ~d.success
IsSuccess(d)            == d.success
IsAccurate(d)           == d.is_accurate = Bool(TRUE)
HasAccuracy(d)          == d.is_accurate # Null
HasDeviation(d)         == d.deviation # Null
LatencyOf(d)            == d.latency
SizeOf(d)               == d.response_size
AbsDeviationOf(d)       == Magnitude(d.deviation)

ProviderData(data, provider) ==
    LET keep(d) == IsProvider(provider, d) IN Filter(data, keep)

FailedCount(providerData) == Len(Filter(providerData, IsFailed))

\* a variant that divides the failed count
SuccessRateOfFailed(requests, failed) == Frac(failed * 100, requests)

SuccessRate(requests, failed) == Frac((requests - failed) * 100, requests)

\* a variant that divides without looking at the divisor: 0 / 0 is NaN
AccuracyRateUnguarded(accurate, totalWithAccuracy) ==
    IF totalWithAccuracy = 0 THEN NaN
    ELSE Frac(accurate * 100, totalWithAccuracy)

\* totalWithAccuracy > 0 ? (accurate / totalWithAccuracy) * 100 : 0
AccuracyRate(accurate, totalWithAccuracy) ==
    IF totalWithAccuracy > 0
    THEN Frac(accurate * 100, totalWithAccuracy)
    ELSE Num(0)

\* the summary of one provider in server.js
ProviderSummary(data, provider) ==
    LET providerData == ProviderData(data, provider)
        n            == Len(providerData)
        latencies    == SortAsc(Map(providerData, LatencyOf))
        failed       == FailedCount(providerData)
        accurate     == Len(Filter(providerData, IsAccurate))
        totalWithAccuracy == Len(Filter(providerData, HasAccuracy))
        deviations   == Map(Filter(providerData, HasDeviation), AbsDeviationOf)
    IN  IF n = 0
        THEN [provider |-> provider, requests |-> 0, failed |-> 0,
              success_rate |-> Num(0), avg_latency |-> Num(0),
              p50_latency |-> 0, p95_latency |-> 0, accuracy_rate |-> Num(0),
              avg_response_size |-> Num(0), avg_deviation |-> Num(0)]
        ELSE [provider |-> provider,
              requests |-> n,
              failed |-> failed,
              success_rate |-> SuccessRate(n, failed),
              avg_latency |-> Frac(SumOf(latencies), Len(latencies)),
              p50_latency |-> latencies[HalfIndex(Len(latencies)) + 1],
              p95_latency |-> latencies[NinetyFiveIndex(Len(latencies)) + 1],
              accuracy_rate |-> AccuracyRate(accurate, totalWithAccuracy),
              avg_response_size |-> Frac(SumOf(Map(providerData, SizeOf)), n),
              avg_deviation |->
                  IF Len(deviations) > 0
                  THEN Over(SumOfNumbers(deviations), Num(Len(deviations)))
                  ELSE Num(0)]

\* the summary of one provider in the earlier server file
LegacyProviderSummary(data, provider) ==
    LET providerData == ProviderData(data, provider)
        n            == Len(providerData)
        latencies    == SortAsc(Map(providerData, LatencyOf))
        failed       == FailedCount(providerData)
    IN  IF n = 0
        THEN [provider |-> provider, requests |-> 0, failed |-> 0,
              success_rate |-> Num(0), avg_latency |-> Num(0),
              p50_latency |-> 0, p95_latency |-> 0]
        ELSE [provider |-> provider,
              requests |-> n,
              failed |-> failed,
              success_rate |-> SuccessRate(n, failed),
              avg_latency |-> Frac(SumOf(latencies), Len(latencies)),
              p50_latency |-> latencies[HalfIndex(Len(latencies)) + 1],
              p95_latency |-> latencies[NinetyFiveIndex(Len(latencies)) + 1]]

\* Object.values(summary): one summary per provider of the list, in order
Summary(data) ==
    [k \in 1..Len(SummaryProviders) |->
        ProviderSummary(data, SummaryProviders[k])]

LegacySummary(data) ==
    [k \in 1..Len(LegacySummaryProviders) |->
        LegacyProviderSummary(data, LegacySummaryProviders[k])]

---------------------------------------------------------------------------
(* The rows a summary query can find: rows the price run wrote, at most    *)
(* MaxWindow of them.                                                      *)

MaxWindow == 3

Latencies == {80, 250}

\* the row of one price probe of a provider that is up or down
WindowRow(provider, up, latency, n) ==
    LET o   == IF up
               THEN Reply(200, "object", PriceBody(provider, 104))
               ELSE Reply(500, "object", NoBody)
        res == testTokenPrice(provider, "USDT", Num(100),
                              [o EXCEPT !.elapsed = latency])
    IN  InsertedRow(n, "price", 0, provider, "price_USDT", res)

\* one more row is in the table when the query runs
RowWritten ==
    /\ summaryOf = "none"
    /\ Len(window) < MaxWindow
    /\ \E k \in 1..Len(PriceProviders), up \in BOOLEAN, latency \in Latencies :
         window' = Append(window,
                          WindowRow(PriceProviders[k], up, latency,
                                    Len(window) + 1))
    /\ UNCHANGED <<summaryOf, summary, runVars, probeVars>>

\* the summary query is answered by server.js
GetSummary ==
    /\ summaryOf = "none"
    /\ summaryOf' = "server.js"
    /\ summary' = Summary(window)
    /\ UNCHANGED <<window, runVars, probeVars>>

\* the summary query is answered by the earlier server file
GetLegacySummary ==
    /\ summaryOf = "none"
    /\ summaryOf' = "legacy"
    /\ summary' = LegacySummary(window)
    /\ UNCHANGED <<window, runVars, probeVars>>

InitSummary == RunIdle /\ ProbeIdle /\ AggIdle

NextSummary == RowWritten \/ GetSummary \/ GetLegacySummary

SpecSummary == InitSummary /\ [][NextSummary]_vars

---------------------------------------------------------------------------
(* The latencies the percentiles are taken of: up to MaxSample rows of one *)
(* provider with any of the SampleLatencies, in any order, and after them  *)
(* possibly a burst of Burst rows of the least latency.                    *)

MaxSample == 5
Burst     == 15

SampleProvider  == "alchemy"
SampleLatencies == {100, 120, 130, 150, 400}
BurstLatency    == CHOOSE l \in SampleLatencies : \A m \in SampleLatencies : l <= m

SampleRow(latency, n) == WindowRow(SampleProvider, TRUE, latency, n)

\* one more row of the provider is in the table when the query runs
SampleWritten ==
    /\ summaryOf = "none"
    /\ Len(window) < MaxSample
    /\ \E latency \in SampleLatencies :
         window' = Append(window, SampleRow(latency, Len(window) + 1))
    /\ UNCHANGED <<summaryOf, summary, runVars, probeVars>>

\* Burst more rows of the provider are in the table when the query runs
BurstWritten ==
    /\ summaryOf = "none"
    /\ Len(window) > 0
    /\ Len(window) <= MaxSample
    /\ window' = window \o [i \in 1..Burst |->
                               SampleRow(BurstLatency, Len(window) + i)]
    /\ UNCHANGED <<summaryOf, summary, runVars, probeVars>>

NextPercentile ==
    SampleWritten \/ BurstWritten \/ GetSummary \/ GetLegacySummary

SpecPercentile == InitSummary /\ [][NextPercentile]_vars

---------------------------------------------------------------------------
(* GET /api/graph/:metric.  The timestamp of a row is [hour, minute,       *)
(* second] of one day; the key of a bucket is the text toISOString gives,  *)
(* held as its digits (the date and the punctuation are the same in every  *)
(* key of the day).                                                        *)

GraphProviders       == <<"alchemy", "mobula", "codex", "coingecko", "goldrush">>
LegacyGraphProviders == <<"alchemy", "mobula", "codex">>

GraphMetrics ==
    {"failed-requests", "avg-latency", "p95-latency", "success-rate",
     "accuracy-rate", "throughput"}
LegacyGraphMetrics ==
    {"failed-requests", "avg-latency", "p95-latency", "success-rate"}

\* a variant that rounds to the nearest multiple of 5 minutes
setMinutesRounded(time) ==
    LET m == ((time.minute + 2) \div 5) * 5
    IN  [hour   |-> time.hour + (m \div 60),
         minute |-> m % 60,
         second |-> 0]

\* time.setMinutes(Math.floor(time.getMinutes() / 5) * 5, 0, 0)
setMinutes(time) ==
    [hour |-> time.hour, minute |-> (time.minute \div 5) * 5, second |-> 0]

\* the decimal digits of n < 100, without and with a leading zero
PlainDigits(n) == IF n < 10 THEN <<n>> ELSE <<n \div 10, n % 10>>
TwoDigits(n)   == <<n \div 10, n % 10>>

\* a variant that writes the fields without leading zeros
toPlainString(time) ==
    PlainDigits(time.hour) \o PlainDigits(time.minute)
        \o PlainDigits(time.second)

\* time.toISOString(): every field zero-padded to its width
toISOString(time) ==
    TwoDigits(time.hour) \o TwoDigits(time.minute) \o TwoDigits(time.second)

\* the key of the bucket the row is pushed to
BucketOf(row) == toISOString(setMinutes(row.timestamp))

\* a < b as strings: code unit by code unit, a proper prefix first
StringLess(a, b) ==
    \/ \E i \in 1..Len(a) :
           /\ i <= Len(b)
           /\ a[i] < b[i]
           /\ \A j \in 1..(i - 1) : a[j] = b[j]
    \/ Len(a) < Len(b) /\ \A j \in 1..Len(a) : a[j] = b[j]

\* Object.keys(grouped).sort()
RECURSIVE SortedKeys(_)
SortedKeys(keys) ==
    IF keys = {} THEN <<>>
    ELSE LET least == CHOOSE k \in keys :
                          \A other \in keys \ {k} : StringLess(k, other)
         IN  <<least>> \o SortedKeys(keys \ {least})

\* grouped[time][provider]: the rows of the provider pushed to the bucket
GroupedRows(data, time, provider) ==
    LET keep(d) == BucketOf(d) = time /\ d.provider = provider
    IN  Filter(data, keep)

\* the value of a metric over the rows of one provider in one bucket, at
\* least one row; a metric no branch names leaves the property unset
MetricValue(metric, providerData, metrics) ==
    LET n         == Len(providerData)
        latencies == SortAsc(Map(providerData, LatencyOf))
        accurateCount     == Len(Filter(providerData, IsAccurate))
        totalWithAccuracy == Len(Filter(providerData, HasAccuracy))
    IN  CASE metric \notin metrics -> Undefined
          [] metric = "failed-requests" -> Num(FailedCount(providerData))
          [] metric = "avg-latency" -> Frac(SumOf(latencies), n)
          [] metric = "p95-latency" ->
               Or(Num(latencies[NinetyFiveIndex(n) + 1]), Num(latencies[n]))
          [] metric = "success-rate" ->
               Frac(Len(Filter(providerData, IsSuccess)) * 100, n)
          [] metric = "accuracy-rate" ->
               IF totalWithAccuracy > 0
               THEN Frac(accurateCount * 100, totalWithAccuracy)
               ELSE Null
          [] metric = "throughput" -> Num(n)

\* a variant that answers null for every falsy value
CellValueOrNull(metric, providerData, metrics) ==
    IF Len(providerData) = 0 THEN Null
    ELSE Or(MetricValue(metric, providerData, metrics), Null)

\* bucket[provider]
CellValue(metric, providerData, metrics) ==
    IF Len(providerData) = 0 THEN Null
    ELSE MetricValue(metric, providerData, metrics)

\* the array the query answers: per bucket its key and a value per provider
Series(data, metric, providers, metrics) ==
    LET keys == SortedKeys({BucketOf(data[i]) : i \in 1..Len(data)})
    IN  [b \in 1..Len(keys) |->
            [time   |-> keys[b],
             values |-> [k \in 1..Len(providers) |->
                            CellValue(metric,
                                      GroupedRows(data, keys[b], providers[k]),
                                      metrics)]]]

\* grouped[bucket][row.provider].push(row) raises a TypeError for a row
\* whose provider has no list in the bucket
PushRaises(data, providers) ==
    \E i \in 1..Len(data) :
        \A k \in 1..Len(providers) : data[i].provider # providers[k]

Graph(data, metric, providers, metrics) ==
    IF PushRaises(data, providers)
    THEN [raised |-> TRUE, metric |-> metric, series |-> <<>>]
    ELSE [raised |-> FALSE, metric |-> metric,
          series |-> Series(data, metric, providers, metrics)]

---------------------------------------------------------------------------
(* The rows a graph query can find: at most MaxGraphRows rows of the price *)
(* run, in the order of their timestamps.                                  *)

MaxGraphRows == 3

GraphTimes ==
    {[hour |-> 9, minute |-> 4, second |-> 59],
     [hour |-> 9, minute |-> 5, second |-> 0],
     [hour |-> 9, minute |-> 59, second |-> 59],
     [hour |-> 10, minute |-> 0, second |-> 0]}

GraphRowProviders == {"alchemy", "coingecko"}

UnknownMetric == "median-latency"

\* the seconds of the day at a timestamp
SecondOfDay(time) == time.hour * 3600 + time.minute * 60 + time.second

\* the row of a probe that answered in 80 ms or failed at once
GraphRow(provider, up, time, n) ==
    WindowRow(provider, up, IF up THEN 80 ELSE 0, n) @@ [timestamp |-> time]

\* one more row is in the table when the query runs
GraphRowWritten ==
    /\ summaryOf = "none"
    /\ Len(window) < MaxGraphRows
    /\ \E provider \in GraphRowProviders, up \in BOOLEAN, time \in GraphTimes :
         /\ Len(window) > 0 =>
               SecondOfDay(window[Len(window)].timestamp) <= SecondOfDay(time)
         /\ window' = Append(window,
                             GraphRow(provider, up, time, Len(window) + 1))
    /\ UNCHANGED <<summaryOf, summary, runVars, probeVars>>

\* the graph query is answered by server.js
GetGraph ==
    /\ summaryOf = "none"
    /\ \E metric \in GraphMetrics \cup {UnknownMetric} :
         summary' = Graph(window, metric, GraphProviders, GraphMetrics)
    /\ summaryOf' = "graph"
    /\ UNCHANGED <<window, runVars, probeVars>>

\* the graph query is answered by the earlier server file
GetLegacyGraph ==
    /\ summaryOf = "none"
    /\ \E metric \in GraphMetrics \cup {UnknownMetric} :
         summary' = Graph(window, metric, LegacyGraphProviders,
                          LegacyGraphMetrics)
    /\ summaryOf' = "legacy graph"
    /\ UNCHANGED <<window, runVars, probeVars>>

NextGraph == GraphRowWritten \/ GetGraph \/ GetLegacyGraph

SpecGraph == InitSummary /\ [][NextGraph]_vars

---------------------------------------------------------------------------
(* The graph query over a bucket with many rows: after the rows written    *)
(* one by one, GraphBurst failed probes of one provider are written at the *)
(* moment of the last row.                                                 *)

GraphBurst == 20

GraphBurstProvider == "alchemy"

GraphBurstWritten ==
    /\ summaryOf = "none"
    /\ Len(window) > 0
    /\ Len(window) <= MaxGraphRows
    /\ window' = window \o
                     [i \in 1..GraphBurst |->
                         GraphRow(GraphBurstProvider, FALSE,
                                  window[Len(window)].timestamp,
                                  Len(window) + i)]
    /\ UNCHANGED <<summaryOf, summary, runVars, probeVars>>

NextLatencyGraph ==
    GraphRowWritten \/ GraphBurstWritten \/ GetGraph \/ GetLegacyGraph

SpecLatencyGraph == InitSummary /\ [][NextLatencyGraph]_vars

---------------------------------------------------------------------------
(* GET /api/accuracy-comparison.  A group is the rows of one bucket and    *)
(* one test_type; its key stands for `${bucket}_${token}`.                 *)

ComparisonProviders == <<"alchemy", "mobula", "codex", "coingecko", "goldrush">>

\* .like('test_type', 'price_%').not('price_value', 'is', null)
IsPricedRow(d) ==
    /\ Len(d.test_type) >= 6
    /\ SubSeq(d.test_type, 1, 6) = "price_"
    /\ d.price_value # Null

GroupKey(row) == [time |-> BucketOf(row), token |-> row.test_type]

\* the keys of grouped in the order they were created
RECURSIVE GroupKeys(_)
GroupKeys(data) ==
    IF data = <<>> THEN <<>>
    ELSE LET before == GroupKeys(SubSeq(data, 1, Len(data) - 1))
             key    == GroupKey(data[Len(data)])
         IN  IF \E k \in 1..Len(before) : before[k] = key
             THEN before
             ELSE Append(before, key)

\* grouped[key][provider]: the prices pushed for the provider
GroupPrices(data, key, provider) ==
    LET keep(d) == GroupKey(d) = key /\ d.provider = provider
        price(d) == d.price_value
    IN  Map(Filter(data, keep), price)

\* grouped[key].reference: the reference prices pushed, the truthy ones
GroupReferences(data, key) ==
    LET keep(d) == GroupKey(d) = key /\ Truthy(d.reference_price)
        reference(d) == d.reference_price
    IN  Map(Filter(data, keep), reference)

\* values.reduce((a, b) => a + b, 0) / values.length, at least one value
MeanOf(values) == Over(SumOfNumbers(values), Num(Len(values)))

\* Math.abs((p - referencePrice) / referencePrice * 100)
DeviationFrom(p, referencePrice) ==
    Magnitude(Times(Over(Plus(p, Times(referencePrice, 0 - 1)),
                         referencePrice), 100))

\* a variant that takes the smallest deviation
RECURSIVE LeastOf(_)
LeastOf(values) ==
    IF Len(values) = 1 THEN values[1]
    ELSE LET rest == LeastOf(Tail(values))
         IN  IF Leq(Head(values), rest) THEN Head(values) ELSE rest

\* Math.max(...values), at least one value
RECURSIVE MathMax(_)
MathMax(values) ==
    IF Len(values) = 1 THEN values[1]
    ELSE LET rest == MathMax(Tail(values))
         IN  IF Leq(rest, Head(values)) THEN Head(values) ELSE rest

\* the element of result for one group: a mean price per provider that has
\* prices, the variance, and the reference when there is one
Comparison(data, key) ==
    LET prices == [k \in 1..Len(ComparisonProviders) |->
                     LET pushed == GroupPrices(data, key,
                                               ComparisonProviders[k])
                     IN  IF Len(pushed) > 0 THEN MeanOf(pushed)
                         ELSE Undefined]
        references == GroupReferences(data, key)
        referencePrice == IF Len(references) > 0 THEN MeanOf(references)
                          ELSE Null
        isPresent(p) == p # Undefined
        deviationOfPrice(p) == DeviationFrom(p, referencePrice)
        deviations == Map(Filter(prices, isPresent), deviationOfPrice)
    IN  [time      |-> key.time,
         token     |-> key.token,
         prices    |-> prices,
         variance  |-> IF Truthy(referencePrice)
                       THEN (IF Len(deviations) > 0 THEN MathMax(deviations)
                             ELSE Num(0))
                       ELSE Num(0),
         reference |-> IF Truthy(referencePrice) THEN referencePrice
                       ELSE Undefined]

AccuracyComparison(rows) ==
    LET data == Filter(rows, IsPricedRow)
        keys == GroupKeys(data)
    IN  [g \in 1..Len(keys) |-> Comparison(data, keys[g])]

---------------------------------------------------------------------------
(* The rows an accuracy comparison can find: at most MaxComparisonRows     *)
(* rows of price probes, each written at one of a few moments of the price *)
(* run; a moment has its timestamp, its token and the reference price the  *)
(* run held then.                                                          *)

MaxComparisonRows == 3

Moments ==
    <<[time |-> [hour |-> 9, minute |-> 4, second |-> 30], token |-> "USDT",
       reference |-> Num(104)],
      [time |-> [hour |-> 9, minute |-> 4, second |-> 59], token |-> "USDT",
       reference |-> Num(100)],
      [time |-> [hour |-> 9, minute |-> 4, second |-> 59], token |-> "ETH",
       reference |-> Null],
      [time |-> [hour |-> 9, minute |-> 5, second |-> 0], token |-> "USDT",
       reference |-> Num(100)]>>

ComparisonRowProviders == {"alchemy", "mobula"}

\* what the provider answers: a price, or 0 for an answer without one
QuotedPrices == {0, 98, 103}

\* the row of a price probe at a moment; quote 0 is a call that failed
ComparisonRow(provider, quote, moment, n) ==
    LET o   == IF quote > 0
               THEN Reply(200, "object", PriceBody(provider, quote))
               ELSE Reply(500, "object", NoBody)
        res == testTokenPrice(provider, moment.token, moment.reference, o)
    IN  InsertedRow(n, "price", 0, provider, "price_" \o moment.token, res)
            @@ [timestamp |-> moment.time]

\* one more row is in the table when the query runs
ComparisonRowWritten ==
    /\ summaryOf = "none"
    /\ Len(window) < MaxComparisonRows
    /\ \E provider \in ComparisonRowProviders, quote \in QuotedPrices,
          m \in 1..Len(Moments) :
         /\ Len(window) > 0 =>
               SecondOfDay(window[Len(window)].timestamp)
                   <= SecondOfDay(Moments[m].time)
         /\ window' = Append(window,
                             ComparisonRow(provider, quote, Moments[m],
                                           Len(window) + 1))
    /\ UNCHANGED <<summaryOf, summary, runVars, probeVars>>

\* the accuracy comparison is answered
GetAccuracyComparison ==
    /\ summaryOf = "none"
    /\ summaryOf' = "accuracy-comparison"
    /\ summary' = AccuracyComparison(window)
    /\ UNCHANGED <<window, runVars, probeVars>>

NextComparison == ComparisonRowWritten \/ GetAccuracyComparison

SpecComparison == InitSummary /\ [][NextComparison]_vars

---------------------------------------------------------------------------
(* The summary query while the runs are in progress: it selects the rows   *)
(* the table holds when it arrives and answers their summary.              *)

\* the rows of a run in the order of their insertion
RECURSIVE RowsInOrder(_, _)
RowsInOrder(r, n) ==
    IF n = 0 THEN <<>>
    ELSE Append(RowsInOrder(r, n - 1),
                CHOOSE row \in RowsOf(r) : row.id = n)

\* what select('*') finds
Selected ==
    RowsInOrder("price", Cardinality(RowsOf("price")))
        \o RowsInOrder("wallet", Cardinality(RowsOf("wallet")))

\* GET /api/summary arrives at any moment of the runs
SummaryDuringRuns ==
    /\ summaryOf = "none"
    /\ window' = Selected
    /\ summaryOf' = "server.js"
    /\ summary' = Summary(Selected)
    /\ UNCHANGED <<runVars, probeVars>>

\* res.json(summary): the answer has left the server
SummaryDelivered ==
    /\ summaryOf = "server.js"
    /\ window' = <<>>
    /\ summaryOf' = "none"
    /\ summary' = <<>>
    /\ UNCHANGED <<runVars, probeVars>>

\* a step of a run; the code between the select and res.json is synchronous,
\* so no step of a run falls between them
RunStep == summaryOf = "none" /\ Next

InitStore ==
    /\ RunStart
    /\ down \in {{}, {"mobula"}}
    /\ ProbeIdle
    /\ AggIdle

NextStore == RunStep \/ SummaryDuringRuns \/ SummaryDelivered

SpecStore == InitStore /\ [][NextStore]_vars

---------------------------------------------------------------------------
(* Properties *)

Present(v) == v.t \notin {"undefined", "null"}

Active(r) == pc[r] \in {"reference", "probe", "insert", "pace"}

\* the steps the handler of run r takes when an awaited promise settles
HandlerStep(r) ==
    \/ r = "price" /\ ReferenceReturns
    \/ ProbeReturns(r)
    \/ InsertReturns(r)
    \/ PaceElapses(r)

\* the plan of run r: its (provider, test type, iteration) tuples
Plan(r) ==
    {<<Providers(r)[p], tt, i>> :
        p \in 1..Len(Providers(r)),
        tt \in IF r = "price"
               THEN {"price_" \o Tokens[t] : t \in 1..Len(Tokens)}
               ELSE {"wallet_balance"},
        i \in 0..(Iterations(r) - 1)}

ProbesOf(r, tuple) ==
    {q \in probes : q.run = r
                    /\ <<q.provider, q.test_type, q.iteration>> = tuple}

RowsFor(r, tuple) ==
    {row \in store : row.run = r
                     /\ <<row.provider, row.test_type, row.iteration>> = tuple}

\* C1: every probe call that settles returns an object; none raises an
\* exception to its caller, whatever the network call did.
ProbeNeverThrows == probeState # "threw"

\* C2: in what a probe returns, errorType is 'success' exactly when success
\* is true.
ErrorKindSuccessIffSuccess ==
    probeState = "returned"
        => (probeOut.errorType = "success" <=> probeOut.success)

\* C3: no run is aborted and no probe is retried, whichever probes fail: no
\* exception leaves a handler, no tuple of the plan is probed or recorded
\* twice, and when the run has answered every tuple of its plan has been
\* probed once and has one row.
EveryTupleProbedOnce ==
    \A r \in Runs :
        /\ pc[r] # "failed"
        /\ \A tuple \in Plan(r) :
               /\ Cardinality(ProbesOf(r, tuple)) <= 1
               /\ Cardinality(RowsFor(r, tuple)) <= 1
               /\ pc[r] = "done" =>
                      /\ Cardinality(ProbesOf(r, tuple)) = 1
                      /\ Cardinality(RowsFor(r, tuple)) = 1

\* C4: when a run has answered, its totalRequests is the size of its plan
\* (providers x subjects x iterations) and the number of rows it inserted.
TotalRequestsIsRowsInserted ==
    \A r \in Runs :
        pc[r] = "done" =>
            /\ response[r].totalRequests = Cardinality(Plan(r))
            /\ response[r].totalRequests = Cardinality(RowsOf(r))

BothRunsAnswered ==
    /\ pc["price"] = "done"
    /\ pc["wallet"] = "done"
    /\ \E row \in store : ~row.success

\* C5: a pending network call is always ended (by its answer or by a
\* timeout), so the handler awaiting it can take its next step.
PendingCallIsEnded ==
    \A r \in Runs : pc[r] \in {"reference", "probe"} => ENABLED HandlerStep(r)

\* C6: the two runs are never in progress at the same time.
OneRunAtATime == ~(Active("price") /\ Active("wallet"))

\* C7: in the price run every probe of a (token, iteration) comes after the
\* one reference query of that (token, iteration), and every row carries
\* the result of that query as its reference_price.
ReferenceSharedWithinIteration ==
    /\ \A q \in probes :
           q.run = "price" =>
               LET Q == {k \in 1..Len(refQueries) :
                            /\ "price_" \o refQueries[k].token = q.test_type
                            /\ refQueries[k].iteration = q.iteration}
               IN  /\ Cardinality(Q) = 1
                   /\ \A k \in Q : refQueries[k].before < q.n
    /\ \A row \in store :
           row.run = "price" =>
               \E k \in 1..Len(refQueries) :
                   /\ "price_" \o refQueries[k].token = row.test_type
                   /\ refQueries[k].iteration = row.iteration
                   /\ Column(refQueries[k].result) = row.reference_price

SecondIterationHasReference ==
    \E row \in store, other \in store :
        /\ row.run = "price" /\ other.run = "price"
        /\ row.iteration = 1 /\ other.iteration = 0
        /\ row.test_type = other.test_type
        /\ Present(row.reference_price)
        /\ row.reference_price # other.reference_price
        /\ ~row.success

\* C8: in what a price probe returns, isAccurate is present exactly when
\* deviation is, and then priceValue and referencePrice are present too.
AccuracyAndDeviationTogether ==
    (probeState = "returned" /\ probeIn.kind = "price") =>
        /\ Present(probeOut.isAccurate) <=> Present(probeOut.deviation)
        /\ Present(probeOut.isAccurate) =>
               /\ Present(probeOut.priceValue)
               /\ Present(probeOut.referencePrice)

InaccuratePriceReturned ==
    /\ probeState = "returned"
    /\ probeIn.kind = "price"
    /\ probeOut.isAccurate = Bool(FALSE)
    /\ Present(probeOut.deviation)

SumRequests(summaries) ==
    SumOf([k \in 1..Len(summaries) |-> summaries[k].requests])

\* C9: the requests of the provider summaries add up to the number of rows
\* summarised.
RequestsSumToWindowSize ==
    summaryOf # "none" => SumRequests(summary) = Len(window)

LatenciesOf(provider) ==
    LET providerData == ProviderData(window, provider)
    IN  [i \in 1..Len(providerData) |-> providerData[i].latency]

\* v is what stands at 0-based index idx once xs is in ascending order:
\* at most idx elements are less than v, more than idx are at most v
AtSortedIndex(v, xs, idx) ==
    /\ Cardinality({i \in 1..Len(xs) : xs[i] < v}) <= idx
    /\ Cardinality({i \in 1..Len(xs) : xs[i] <= v}) > idx

\* C11: in every summary answered, a provider with n >= 1 rows has as
\* p50_latency and p95_latency the latencies at index floor(n * 0.5) and
\* floor(n * 0.95) of its latencies in ascending order; for n = 1 both are
\* the single latency.
PercentilesAtFloorIndex ==
    summaryOf # "none" =>
        \A k \in 1..Len(summary) :
            LET xs == LatenciesOf(summary[k].provider)
                n  == Len(xs)
            IN  n >= 1 =>
                  /\ AtSortedIndex(summary[k].p50_latency, xs, (n * 5) \div 10)
                  /\ AtSortedIndex(summary[k].p95_latency, xs,
                                   (n * 95) \div 100)
                  /\ n = 1 => /\ summary[k].p50_latency = xs[1]
                              /\ summary[k].p95_latency = xs[1]

\* C11 witness: the latencies 100, 120, 130, 400, 150 were summarised by
\* server.js with p50 130 and p95 400
FiveLatenciesSummarised ==
    /\ summaryOf = "server.js"
    /\ LatenciesOf(SampleProvider) = <<100, 120, 130, 400, 150>>
    /\ \E k \in 1..Len(summary) :
           /\ summary[k].provider = SampleProvider
           /\ summary[k].p50_latency = 130
           /\ summary[k].p95_latency = 400

\* C12: in every summary answered, a provider with n >= 2 rows has
\* p50_latency <= p95_latency.
MedianAtMostNinetyFifth ==
    summaryOf # "none" =>
        \A k \in 1..Len(summary) :
            summary[k].requests >= 2 =>
                summary[k].p50_latency <= summary[k].p95_latency

\* C12 witness: a summary of three rows or more, the first the slowest,
\* whose p50_latency is less than its p95_latency
SlowestFirstSummarised ==
    /\ summaryOf # "none"
    /\ \E k \in 1..Len(summary) :
           /\ summary[k].provider = SampleProvider
           /\ summary[k].requests >= 3
           /\ \A i \in 2..Len(window) : window[i].latency < window[1].latency
           /\ summary[k].p50_latency < summary[k].p95_latency

\* C13: the summary query of server.js is answered for every window, the
\* empty one and one of failed rows only included: a provider without
\* rows gets requests, failed, success_rate, avg_latency, p50_latency,
\* p95_latency and accuracy_rate 0, and a provider whose rows all failed
\* gets success_rate, accuracy_rate and avg_deviation 0 with latency
\* statistics taken from its rows.
EmptyAndFailedWindowsSummarised ==
    summaryOf = "server.js" =>
      /\ Len(summary) = Len(SummaryProviders)
      /\ \A k \in 1..Len(summary) :
              LET s    == summary[k]
                  rows == ProviderData(window, s.provider)
                  xs   == LatenciesOf(s.provider)
              IN  /\ Len(rows) = 0 =>
                        /\ s.requests = 0 /\ s.failed = 0
                        /\ s.success_rate = Num(0) /\ s.avg_latency = Num(0)
                        /\ s.p50_latency = 0 /\ s.p95_latency = 0
                        /\ s.accuracy_rate = Num(0)
                  /\ (Len(rows) > 0 /\ \A i \in 1..Len(rows) : ~rows[i].success) =>
                        /\ s.requests = Len(rows) /\ s.failed = Len(rows)
                        /\ s.success_rate = Num(0)
                        /\ s.accuracy_rate = Num(0)
                        /\ s.avg_deviation = Num(0)
                        /\ s.avg_latency.t = "number"
                        /\ \E i \in 1..Len(xs) : s.p50_latency = xs[i]
                        /\ \E i \in 1..Len(xs) : s.p95_latency = xs[i]

\* C13 witness: server.js summarised a window of two rows or more, all
\* failed, so that some providers of the list have no row
FailedWindowSummarised ==
    /\ summaryOf = "server.js"
    /\ Len(window) >= 2
    /\ \A i \in 1..Len(window) : ~window[i].success
    /\ \E k \in 1..Len(summary) : summary[k].requests = 0
    /\ \E k \in 1..Len(summary) : summary[k].failed >= 2

\* |observed - reference| / reference <= tolerance in the rationals, for
\* reference > 0
WithinTolerance(observed, reference, tolerance) ==
    Abs(observed.n * reference.d - reference.n * observed.d) * tolerance.d
        <= tolerance.n * reference.n * observed.d

\* C14: for observed > 0 and reference > 0, validatePriceAccuracy answers
\* true if and only if |observed - reference| / reference <= tolerance, the
\* boundary included.
AccurateIffWithinTolerance ==
    (/\ probeIn.kind = "accuracy"
     /\ probeState \in {"returned", "scaled"}
     /\ probeIn.observed.n > 0
     /\ probeIn.reference.n > 0)
        => (probeOut.isAccurate
              <=> WithinTolerance(probeIn.observed, probeIn.reference,
                                  probeIn.tolerance))

\* C15: whenever observed <= 0 or reference <= 0, validatePriceAccuracy
\* answers false and calculateDeviation answers null; otherwise
\* calculateDeviation answers (observed - reference) / reference * 100.
NonPositiveIsInaccurateAndAbsent ==
    (probeIn.kind = "accuracy" /\ probeState \in {"returned", "scaled"}) =>
        IF probeIn.observed.n <= 0 \/ probeIn.reference.n <= 0
        THEN ~probeOut.isAccurate /\ probeOut.deviation = Null
        ELSE probeOut.deviation
               = Times(Over(Plus(probeIn.observed,
                                 Times(probeIn.reference, 0 - 1)),
                            probeIn.reference), 100)

\* C16: for positive prices, validatePriceAccuracy answers for both prices
\* times a positive scale factor what it answers for the prices.
AccuracyKeptUnderScaling ==
    (/\ probeIn.kind = "accuracy"
     /\ probeState = "scaled"
     /\ probeIn.observed.n > 0
     /\ probeIn.reference.n > 0)
        => probeOut.scaled = probeOut.isAccurate

\* the kind the classification rules give a finished call: the first rule, in
\* their order, with a keyword in the error text or with its status code
FirstRule(text, status) ==
    LET msg == toLowerCase(text)
    IN  IF includes(msg, "429") \/ includes(msg, "rate limit") \/ status = 429
            THEN "rate_limit"
        ELSE IF includes(msg, "401") \/ includes(msg, "403")
                \/ includes(msg, "unauthorized") \/ status \in {401, 403}
            THEN "auth_error"
        ELSE IF includes(msg, "404") \/ includes(msg, "not found")
                \/ status = 404
            THEN "not_found"
        ELSE IF includes(msg, "500") \/ includes(msg, "502")
                \/ includes(msg, "503") \/ status \in {500, 502, 503}
            THEN "server_error"
        ELSE IF includes(msg, "timeout") \/ includes(msg, "econnrefused")
            THEN "network_error"
        ELSE IF includes(msg, "parse") \/ includes(msg, "json")
            THEN "parse_error"
        ELSE "unknown_error"

\* C17: a probe that returns a failure with a text as its error message is
\* classified by the first rule, in the order rate_limit, auth_error,
\* not_found, server_error, network_error, parse_error, whose keyword occurs
\* in the error text or in the status code, and as unknown_error when no rule
\* matches; a failure with status 429 is rate_limit whatever its text says.
ClassifiedByTextOrStatus ==
    (/\ probeState = "returned"
     /\ ~probeOut.success
     /\ Truthy(probeOut.errorMessage))
        => probeOut.errorType =
               FirstRule(probeOut.errorMessage.s, probeIn.outcome.status)

\* the rows and the answer of a graph query that was answered
GraphAnswered ==
    /\ summaryOf \in {"graph", "legacy graph"}
    /\ ~summary.raised

\* the second of the day a bucket key names
KeyStart(key) ==
    (key[1] * 10 + key[2]) * 3600 + (key[3] * 10 + key[4]) * 60
        + key[5] * 10 + key[6]

BucketSeconds == 5 * 60

\* the row's timestamp lies in the five minutes that begin at the key
InBucket(row, key) ==
    /\ KeyStart(key) <= SecondOfDay(row.timestamp)
    /\ SecondOfDay(row.timestamp) < KeyStart(key) + BucketSeconds

\* the positions of the rows of a provider in the bucket of a key
RowsInBucket(key, provider) ==
    {i \in 1..Len(window) :
        InBucket(window[i], key) /\ window[i].provider = provider}

\* the providers and the metrics of the file that answered
AnsweringProviders ==
    IF summaryOf = "graph" THEN GraphProviders ELSE LegacyGraphProviders
AnsweringMetrics ==
    IF summaryOf = "graph" THEN GraphMetrics ELSE LegacyGraphMetrics

RECURSIVE SumOfCells(_)
SumOfCells(cells) ==
    IF cells = <<>> THEN 0
    ELSE (IF Head(cells).t = "number" THEN Head(cells).n ELSE 0)
             + SumOfCells(Tail(cells))

NullOnlyWithoutRows ==
    (/\ GraphAnswered
     /\ summary.metric \in AnsweringMetrics \ {"accuracy-rate"})
        => \A b \in 1..Len(summary.series) :
             \A k \in 1..Len(AnsweringProviders) :
                LET value == summary.series[b].values[k]
                    rows  == RowsInBucket(summary.series[b].time,
                                          AnsweringProviders[k])
                IN  /\ value = Null <=> rows = {}
                    /\ rows # {} => value.t = "number"

\* a provider whose rows in the bucket all succeeded has 0 failed requests,
\* and a provider without rows in that bucket has null
MeasuredZeroBesideNull ==
    /\ summaryOf = "graph"
    /\ summary.metric = "failed-requests"
    /\ \E b \in 1..Len(summary.series) :
         /\ RowsInBucket(summary.series[b].time, "alchemy") # {}
         /\ summary.series[b].values[1] = Num(0)
         /\ RowsInBucket(summary.series[b].time, "coingecko") = {}
         /\ summary.series[b].values[4] = Null

\* the start of the five minutes a timestamp lies in
FloorStart(time) == SecondOfDay(time) - (SecondOfDay(time) % BucketSeconds)

\* the positions of the rows pushed to the bucket of a key
RowsPushedTo(key) == {i \in 1..Len(window) : BucketOf(window[i]) = key}

\* C20: the buckets of an answered graph query are in strictly ascending
\* order of their start, no bucket start is emitted twice, and every emitted
\* bucket holds at least one row of the window.
BucketsAscendingAndSparse ==
    GraphAnswered =>
        /\ \A b \in 1..Len(summary.series) :
             RowsPushedTo(summary.series[b].time) # {}
        /\ \A b, c \in 1..Len(summary.series) :
             b < c =>
                /\ summary.series[b].time # summary.series[c].time
                /\ \A i \in RowsPushedTo(summary.series[b].time),
                      j \in RowsPushedTo(summary.series[c].time) :
                        FloorStart(window[i].timestamp)
                            < FloorStart(window[j].timestamp)

\* three buckets were emitted, the last two on both sides of the hour, and
\* none for the fifty minutes between the first two
SparseBucketsEmitted ==
    /\ summaryOf = "graph"
    /\ summary.metric = "avg-latency"
    /\ Len(summary.series) = 3
    /\ summary.series[1].time = <<0, 9, 0, 0, 0, 0>>
    /\ summary.series[2].time = <<0, 9, 5, 5, 0, 0>>
    /\ summary.series[3].time = <<1, 0, 0, 0, 0, 0>>

\* the priced rows of the window that lie in the group of an answered element
RowsOfGroup(element) ==
    LET keep(d) == /\ d.price_value # Null
                   /\ InBucket(d, element.time)
                   /\ d.test_type = element.token
    IN  Filter(window, keep)

\* the mean of the prices a provider has in a sequence of rows
MeanPriceOf(rows, provider) ==
    LET keep(d) == d.provider = provider
        price(d) == d.price_value
        prices == Map(Filter(rows, keep), price)
    IN  Over(SumOfNumbers(prices), Num(Len(prices)))

\* the reference prices held by a sequence of rows
CapturedReferences(rows) ==
    LET keep(d) == d.reference_price # Null
        reference(d) == d.reference_price
    IN  Map(Filter(rows, keep), reference)

\* |mean provider price - mean reference| / mean reference * 100
PercentOff(rows, provider) ==
    LET references    == CapturedReferences(rows)
        meanReference == Over(SumOfNumbers(references), Num(Len(references)))
        difference    == Plus(MeanPriceOf(rows, provider),
                              Times(meanReference, 0 - 1))
    IN  Times(Over(Magnitude(difference), meanReference), 100)

\* the providers with a priced row in a sequence of rows
ProvidersIn(rows) == {rows[i].provider : i \in 1..Len(rows)}

\* C21: every priced row of the window is in exactly one answered element of
\* the accuracy comparison, that of its bucket and test subject; an element
\* whose rows captured a reference reports the mean of the captured
\* references and, as variance, the largest over the providers present of
\* |mean provider price - mean reference| / mean reference * 100; an element
\* whose rows captured none reports variance 0 and no reference.
VarianceIsLargestDeviation ==
    summaryOf = "accuracy-comparison" =>
        /\ \A i \in 1..Len(window) :
             window[i].price_value # Null =>
                Cardinality({g \in 1..Len(summary) :
                               /\ InBucket(window[i], summary[g].time)
                               /\ window[i].test_type = summary[g].token})
                  = 1
        /\ \A g \in 1..Len(summary) :
             LET rows == RowsOfGroup(summary[g])
             IN  /\ rows # <<>>
                 /\ IF CapturedReferences(rows) # <<>>
                    THEN /\ summary[g].reference
                              = Over(SumOfNumbers(CapturedReferences(rows)),
                                     Num(Len(CapturedReferences(rows))))
                         /\ \A provider \in ProvidersIn(rows) :
                              Leq(PercentOff(rows, provider),
                                  summary[g].variance)
                         /\ \E provider \in ProvidersIn(rows) :
                              PercentOff(rows, provider) = summary[g].variance
                    ELSE /\ summary[g].variance = Num(0)
                         /\ summary[g].reference = Undefined

\* prices 103 and 98 against the reference 100 were answered with variance 3
\* beside a group without a reference
ThreePercentVarianceAnswered ==
    /\ summaryOf = "accuracy-comparison"
    /\ Len(summary) = 2
    /\ summary[1].token = "price_USDT"
    /\ summary[1].prices[1] = Num(103)
    /\ summary[1].prices[2] = Num(98)
    /\ summary[1].reference = Num(100)
    /\ summary[1].variance = Num(3)
    /\ summary[2].token = "price_ETH"
    /\ summary[2].reference = Undefined
    /\ summary[2].variance = Num(0)

\* C22: a wallet benchmark request without a wallet address is answered 400
\* and does nothing else: the step that rejects it issues no probe and
\* leaves the store as it was, and the rejected request never has a probe
\* or a row of its own.
RejectedWalletRequestDoesNoWork ==
    /\ [](pc["wallet"] = "rejected" =>
            /\ response["wallet"].status = 400
            /\ {q \in probes : q.run = "wallet"} = {}
            /\ RowsOf("wallet") = {})
    /\ [][(pc["wallet"] # "rejected" /\ pc'["wallet"] = "rejected") =>
            (store' = store /\ probes' = probes /\ result' = result)]_vars

\* the wallet request was rejected while the price run wrote its rows
WalletRejectedBesidePriceRun ==
    /\ pc["wallet"] = "rejected"
    /\ response["wallet"].status = 400
    /\ pc["price"] = "done"
    /\ RowsOf("price") # {}

\* the probes a run has issued
IssuedBy(r) == {q \in probes : q.run = r}

\* C23: within a run at most one probe is without its row at any time, that
\* probe is the one in flight, being inserted, or the one whose exception
\* ended the run, and a step that issues a probe of the run finds the row of
\* every earlier probe of the run in the store.
ProbesSequentialAndUnbuffered ==
    /\ [](\A r \in Runs :
            LET pending == Cardinality(IssuedBy(r)) - Cardinality(RowsOf(r))
            IN  /\ pending \in {0, 1}
                /\ pending = 1 <=> pc[r] \in {"probe", "insert", "failed"})
    /\ [][\A r \in Runs :
            IssuedBy(r)' # IssuedBy(r) =>
                /\ Cardinality(IssuedBy(r)') = Cardinality(IssuedBy(r)) + 1
                /\ Cardinality(RowsOf(r)) = Cardinality(IssuedBy(r))]_vars

\* the third probe of the price run is in flight and two rows are written
ThirdProbeAfterTwoRows ==
    /\ pc["price"] = "probe"
    /\ Cardinality(IssuedBy("price")) = 3
    /\ Cardinality(RowsOf("price")) = 2
    /\ pc["wallet"] = "probe"
    /\ Cardinality(IssuedBy("wallet")) = 2
    /\ Cardinality(RowsOf("wallet")) = 1

\* the step issues a call of the run to the provider: a probe, or the
\* reference query of the price run
CallIssued(r, provider) ==
    \/ \E q \in IssuedBy(r)' \ IssuedBy(r) : q.provider = provider
    \/ /\ r = "price"
       /\ provider = ReferenceProvider
       /\ Len(refQueries') > Len(refQueries)

\* C24: a step of a run that calls a provider either is the step in which
\* the run's pacing delay elapses or finds that the run has not called that
\* provider since its last delay elapsed; the reference query counts as a
\* call of the reference provider.
DelayBetweenCallsOfOneProvider ==
    [][\A r \in Runs :
         \A k \in 1..Len(PriceProviders) :
            (CallIssued(r, PriceProviders[k]) /\ pc[r] # "pace")
                => PriceProviders[k] \notin called[r]]_vars

\* the reference query of the second iteration is pending after the first
\* iteration probed the reference provider
SecondReferenceQueryAfterProbe ==
    /\ pc["price"] = "reference"
    /\ cursor["price"].i = 1
    /\ called["price"] = {ReferenceProvider}
    /\ \E q \in IssuedBy("price") :
         q.provider = ReferenceProvider /\ q.iteration = 0
    /\ pc["wallet"] = "probe"
    /\ Cardinality(IssuedBy("wallet")) = 2

\* C25: no step of a run or of a summary query removes or changes a row of
\* the store, the steps of a query leave the store as it is, and when both
\* runs have finished the store holds one row for every probe either run
\* issued and nothing else, while the answer of each run counts the rows of
\* that run only.
StoreIsAppendOnly ==
    /\ [][store \subseteq store']_vars
    /\ [][summaryOf' # summaryOf => store' = store]_vars
    /\ []((pc["price"] = "done" /\ pc["wallet"] = "done") =>
            /\ \A r \in Runs :
                 /\ Cardinality(RowsOf(r)) = Cardinality(IssuedBy(r))
                 /\ response[r].totalRequests = Cardinality(RowsOf(r))
            /\ Cardinality(store)
                 = Cardinality(IssuedBy("price"))
                     + Cardinality(IssuedBy("wallet")))

\* a summary was answered while both runs were between two probes, with rows
\* of both runs in the store
SummaryAnsweredBetweenProbes ==
    /\ summaryOf = "server.js"
    /\ pc["price"] = "insert"
    /\ pc["wallet"] = "pace"
    /\ Len(window) = Cardinality(store)
    /\ RowsOf("price") # {}
    /\ RowsOf("wallet") # {}

\* the rows of the window in the bucket of a key, in the window's order
BucketRows(key) ==
    LET keep(d) == InBucket(d, key)
    IN  Filter(window, keep)

\* C26: in every bucket of an answered p95-latency graph, a provider with
\* n >= 1 rows has as its value the latency at index floor(n * 0.95) of its
\* latencies in ascending order, which is the p95_latency the summary gives
\* for the rows of the bucket; latencies of 0 are allowed.
GraphNinetyFifthAtFloorIndex ==
    (GraphAnswered /\ summary.metric = "p95-latency") =>
        \A b \in 1..Len(summary.series) :
            \A k \in 1..Len(AnsweringProviders) :
                LET rows == BucketRows(summary.series[b].time)
                    mine == ProviderData(rows, AnsweringProviders[k])
                    xs   == [i \in 1..Len(mine) |-> mine[i].latency]
                    n    == Len(xs)
                    value == summary.series[b].values[k]
                IN  n >= 1 =>
                      /\ value.t = "number"
                      /\ value.d = 1
                      /\ AtSortedIndex(value.n, xs, (n * 95) \div 100)
                      /\ value.n = ProviderSummary(rows, AnsweringProviders[k])
                                        .p95_latency

\* the call of the probe failed: no fetch for the provider, a network
\* exception, a status outside 2xx, a body that is not a JSON object, or an
\* error field that reports something
CallFailed ==
    LET o == probeIn.outcome
    IN  \/ probeIn.provider \notin {"alchemy", "mobula", "codex", "coingecko",
                                    "goldrush"}
        \/ probeIn.kind = "wallet" /\ probeIn.provider = "coingecko"
        \/ o.net = "rejects"
        \/ o.status < 200
        \/ o.status > 299
        \/ o.parse # "object"
        \/ Truthy(o.body.error)

\* the body has nothing, or a text that is no number, where the provider
\* puts its price
NoNumberInBody ==
    LET body == probeIn.outcome.body
        raw  == IF body.shape = probeIn.provider
                   \/ (probeIn.provider = "goldrush"
                       /\ body.shape = "goldrush_direct")
                THEN body.price ELSE Undefined
    IN  \/ raw.t \in {"undefined", "null"}
        \/ raw.t = "string" /\ parseFloat(raw).t = "NaN"

\* C27: a probe whose call failed returns with success false and no
\* observed value; a price probe whose call succeeded with a body that holds
\* no number returns with success true, error kind success, and no observed
\* value, no accuracy verdict and no deviation.
FailedOrEmptyProbeHasNoValue ==
    probeState \in {"returned", "threw"} =>
        /\ CallFailed =>
              /\ probeState = "returned"
              /\ ~probeOut.success
              /\ ~Present(probeOut.priceValue)
        /\ (probeIn.kind = "price" /\ ~CallFailed /\ NoNumberInBody) =>
              /\ probeState = "returned"
              /\ probeOut.success
              /\ probeOut.errorType = "success"
              /\ ~Present(probeOut.priceValue)
              /\ ~Present(probeOut.isAccurate)
              /\ ~Present(probeOut.deviation)

\* the reference queries of the price run that ended without a price, and
\* the rows and probes of the iteration of such a query
QueriesWithoutPrice ==
    {k \in 1..Len(refQueries) : refQueries[k].result.t = "null"}

RowsOfQuery(k) ==
    {row \in store : /\ row.run = "price"
                     /\ row.test_type = "price_" \o refQueries[k].token
                     /\ row.iteration = refQueries[k].iteration}

ProbesOfQuery(k, provider) ==
    {q \in probes : /\ q.run = "price"
                    /\ q.provider = provider
                    /\ q.test_type = "price_" \o refQueries[k].token
                    /\ q.iteration = refQueries[k].iteration}

\* the handler has gone past the iteration of query k
IterationOver(k) == k < Len(refQueries) \/ pc["price"] = "done"

\* C28: a reference query that ends without a price does not end the price
\* run: the handler goes on to the first provider's probe, every row of that
\* iteration has reference_price, is_accurate and deviation null, no
\* provider is probed twice, and once the handler is past the iteration
\* every provider has been probed once and has one row.
RunGoesOnWithoutReference ==
    /\ [][(pc["price"] = "reference" /\ pc'["price"] # "reference") =>
              /\ pc'["price"] = "probe"
              /\ \E q \in probes' \ probes :
                     /\ q.provider = PriceProviders[1]
                     /\ q.iteration = cursor["price"].i]_vars
    /\ [](\A k \in QueriesWithoutPrice :
              /\ \A row \in RowsOfQuery(k) :
                     /\ row.reference_price = Null
                     /\ row.is_accurate = Null
                     /\ row.deviation = Null
              /\ \A j \in 1..Len(PriceProviders) :
                     /\ Cardinality(ProbesOfQuery(k, PriceProviders[j])) <= 1
                     /\ IterationOver(k) =>
                            /\ Cardinality(ProbesOfQuery(k, PriceProviders[j])) = 1
                            /\ \E row \in RowsOfQuery(k) :
                                   row.provider = PriceProviders[j])

\* the price run has answered although none of its reference queries got a
\* price, and a provider's price was recorded without a verdict
AnsweredWithoutAnyReference ==
    /\ pc["price"] = "done"
    /\ QueriesWithoutPrice = 1..Len(refQueries)
    /\ \E row \in store : /\ row.run = "price"
                           /\ row.success
                           /\ Present(row.price_value)
                           /\ row.is_accurate = Null

\* the sum of the numbers in the cells of all buckets of the answer
TotalOfSeries ==
    SumOfNumbers([b \in 1..Len(summary.series) |->
                     Num(SumOfCells(summary.series[b].values))])

\* C29: the graph query for the metric throughput, by either server file,
\* completes without raising for every window, with or without a row of a
\* provider outside the file's provider list, and the numbers of its cells
\* sum to the number of rows of the window.
ThroughputCountsEveryRow ==
    (summaryOf \in {"graph", "legacy graph"} /\ summary.metric = "throughput")
        => /\ ~summary.raised
           /\ TotalOfSeries = Num(Len(window))

\* the handler of run r has ended: it returned or an exception left it
HandlerEnded(r) == pc[r] \in {"done", "rejected", "failed"}

\* a response is sent at most once, and the RunSummary only when every tuple
\* of the plan has been probed and has its row
AnsweredAtMostOnceAfterLastRow ==
    /\ [][\A r \in Runs :
              response'[r] # response[r] => response[r] = NoResponse]_vars
    /\ [](\A r \in Runs :
              response[r].status = 200 =>
                  \A tuple \in Plan(r) :
                      /\ Cardinality(ProbesOf(r, tuple)) = 1
                      /\ Cardinality(RowsFor(r, tuple)) = 1)

\* C30: every run request is answered exactly once: a handler that has
\* ended has sent its response, no response is sent twice, and the
\* RunSummary is sent only after the last probe of the plan has returned and
\* its row has been written.
RunAnsweredOnceAfterLastRow ==
    /\ AnsweredAtMostOnceAfterLastRow
    /\ [](\A r \in Runs : HandlerEnded(r) => response[r] # NoResponse)

====
